---- MODULE Spec2Model ----
(***************************************************************************)
(* Model of src/src/bootstrapper.py: the "add" and "generate" runs of the  *)
(* AOC bootstrapper, the pickled template registry, the input-file cache   *)
(* and the [[KEY]] template renderer.                                      *)
(*                                                                         *)
(* Text is a sequence of one-character strings.  A Python dict is a        *)
(* sequence of <<key, value>> pairs in insertion order.                    *)
(***************************************************************************)
EXTENDS Integers, Sequences, FiniteSets, TLC

VARIABLES
    pc,                  \* where the current process run stands ("idle": none yet)
    args,                \* argparse.Namespace of the current run
    saved_templates,     \* the dict main() loaded (and add_template mutates)
    regFile,             \* data/templates.pkl: [exists, bytes]
    inputFiles,          \* {input_root}/{year}/day{day}.txt: [exists, text] per challenge
    yearDirs,            \* the years whose {input_root}/{year} directory exists
    targetFiles,         \* starter code files written so far: path -> content
    response,            \* requests.get's response of the current run: [status, text]
    template_file_path,  \* the template path generate_starter_code was given
    exitCode,            \* exit status of the finished run (-1: none yet)
    failure,             \* "none", "uncaught" (exception), "killed"
    log,                 \* side effects of the current run, in order
    browser,             \* pages opened with webbrowser.open
    history,             \* successful adds so far: <<language as typed, path>>
    start,               \* the files as the current run found them
    runs,                \* process runs started
    tpl_content,         \* render call: the text read from the template file
    template_vars,       \* render call: the variables dict
    rendered             \* render call: [done, text] result of the substitution loop

runVars == <<pc, args, saved_templates, regFile, inputFiles, yearDirs, targetFiles,
             response, template_file_path, exitCode, failure, log, browser,
             history, start, runs>>

renderVars == <<tpl_content, template_vars, rendered>>

vars == <<runVars, renderVars>>

----------------------------------------------------------------------------
(* Bounds of the model *)

\* process runs (add or generate) in one behaviour
MaxRuns == 4
\* a template content given to the renderer: at most this many pieces
MaxChunks == 3
\* a variables dict given to the renderer: at most this many keys
MaxVars == 2

----------------------------------------------------------------------------
(* Text helpers *)

RECURSIVE Concat(_)
\* the pieces of a sequence of texts joined into one text
Concat(ss) == IF ss = <<>> THEN <<>> ELSE Head(ss) \o Concat(Tail(ss))

\* s[i:i+len(old)] == old
MatchAt(s, i, old) ==
    /\ i + Len(old) - 1 <= Len(s)
    /\ SubSeq(s, i, i + Len(old) - 1) = old

RECURSIVE ReplaceFrom(_, _, _, _)
ReplaceFrom(s, i, old, new) ==
    IF i > Len(s) THEN <<>>
    ELSE IF MatchAt(s, i, old)
         THEN new \o ReplaceFrom(s, i + Len(old), old, new)
         ELSE <<s[i]>> \o ReplaceFrom(s, i + 1, old, new)

\* a plausible slip: str.replace(old, new, 1), only the first occurrence
ReplaceFirstOnly(s, old, new) ==
    IF \E i \in 1..Len(s) : MatchAt(s, i, old)
    THEN LET i == CHOOSE j \in 1..Len(s) :
                    /\ MatchAt(s, j, old)
                    /\ \A k \in 1..(j - 1) : ~MatchAt(s, k, old)
         IN SubSeq(s, 1, i - 1) \o new \o SubSeq(s, i + Len(old), Len(s))
    ELSE s

\* Python str.replace(old, new) for a non-empty old: the non-overlapping
\* occurrences of old, found scanning from the left, each become new
Replace(s, old, new) == ReplaceFrom(s, 1, old, new)

Digit(d) ==
    CASE d = 0 -> "0" [] d = 1 -> "1" [] d = 2 -> "2" [] d = 3 -> "3"
      [] d = 4 -> "4" [] d = 5 -> "5" [] d = 6 -> "6" [] d = 7 -> "7"
      [] d = 8 -> "8" [] d = 9 -> "9"

RECURSIVE IntToStr(_)
\* str(n) of a Python int: decimal digits, "-" before a negative number
IntToStr(n) ==
    IF n < 0 THEN <<"-">> \o IntToStr(0 - n)
    ELSE IF n < 10 THEN <<Digit(n)>>
    ELSE IntToStr(n \div 10) \o <<Digit(n % 10)>>

\* f"{value}": a value is <<"int", n>> or <<"str", text>>
Format(v) == IF v[1] = "int" THEN IntToStr(v[2]) ELSE v[2]

\* f"[[{template_var}]]"
Token(key) == <<"[", "[">> \o key \o <<"]", "]">>

----------------------------------------------------------------------------
(* generate_starter_code, lines 142-143: the substitution loop *)

RECURSIVE RenderLoop(_, _)
RenderLoop(content, tv) ==
    IF tv = <<>> THEN content
    ELSE RenderLoop(Replace(content, Token(tv[1][1]), Format(tv[1][2])),
                    Tail(tv))

\* a plausible slip: the loop body leaves the loop after the first variable
RenderFirstVarOnly(content, tv) ==
    IF tv = <<>> THEN content
    ELSE Replace(content, Token(tv[1][1]), Format(tv[1][2]))

Render(content, tv) == RenderLoop(content, tv)

----------------------------------------------------------------------------
(* Python dict: <<key, value>> pairs in insertion order *)

DictHas(d, k) == \E i \in DOMAIN d : d[i][1] = k

DictGet(d, k) == d[CHOOSE i \in DOMAIN d : d[i][1] = k][2]

\* d[k] = v: replaces the value of an existing key, else inserts at the end
DictSet(d, k, v) ==
    IF DictHas(d, k)
    THEN [i \in DOMAIN d |-> IF d[i][1] = k THEN <<k, v>> ELSE d[i]]
    ELSE Append(d, <<k, v>>)

----------------------------------------------------------------------------
(* str.lower(), over the letters the model's language names use *)

LowerChar(c) ==
    CASE c = "P" -> "p" [] c = "Y" -> "y" [] c = "C" -> "c" [] OTHER -> c

\* a plausible slip: the language is stored and looked up as typed
LowerIdentity(s) == s

Lower(s) == [i \in DOMAIN s |-> LowerChar(s[i])]

----------------------------------------------------------------------------
(* pickle.dump / pickle.load of a dict of str to str: a stream of opcodes   *)
(* and string arguments, ended by STOP                                      *)

Op(name) == <<"op", name>>
StrArg(s) == <<"str", s>>
IsOp(t, name) == t[1] = "op" /\ t[2] = name

RECURSIVE DumpItems(_)
DumpItems(d) ==
    IF d = <<>> THEN <<>>
    ELSE <<StrArg(d[1][1]), StrArg(d[1][2]), Op("SETITEM")>> \o DumpItems(Tail(d))

Dumps(d) == <<Op("PROTO"), Op("EMPTY_DICT")>> \o DumpItems(d) \o <<Op("STOP")>>

WellFormed(b) ==
    /\ Len(b) >= 3
    /\ IsOp(b[1], "PROTO")
    /\ IsOp(b[2], "EMPTY_DICT")
    /\ IsOp(b[Len(b)], "STOP")
    /\ (Len(b) - 3) % 3 = 0
    /\ \A j \in 0..(((Len(b) - 3) \div 3) - 1) :
        /\ b[3 + 3 * j][1] = "str"
        /\ b[4 + 3 * j][1] = "str"
        /\ IsOp(b[5 + 3 * j], "SETITEM")

RECURSIVE LoadItems(_, _, _)
LoadItems(b, i, d) ==
    IF i + 2 >= Len(b) THEN d
    ELSE LoadItems(b, i + 3, DictSet(d, b[i][2], b[i + 1][2]))

\* pickle.load: the dict, or an exception (EOFError, UnpicklingError) on a
\* stream that is cut short
Loads(b) ==
    IF WellFormed(b) THEN [ok |-> TRUE, val |-> LoadItems(b, 3, <<>>)]
    ELSE [ok |-> FALSE, val |-> <<>>]

NoFile == [exists |-> FALSE, bytes |-> <<>>]

\* load_saved_templates, lines 165-169, of a registry file f
LoadSavedTemplates(f) ==
    IF ~f.exists THEN [ok |-> TRUE, val |-> <<>>] ELSE Loads(f.bytes)

----------------------------------------------------------------------------
(* The environment: template files on disk, the remote endpoint, arguments *)

SolTpl == <<"/","t","/","s","o","l",".","p","y",".","t","p","l">>
MainC == <<"/","t","/","m","a","i","n",".","c">>
Gone == <<"/","t","/","g","o","n","e">>

\* os.path.exists(path) for the paths a user passes to add
PathExists(path) == path \in {SolTpl, MainC}

\* the text of the template files
TemplateContent(path) ==
    IF path = SolTpl
    THEN <<"d","[","[","C","H","A","L","L","E","N","G","E","_","D","A","Y","]","]",
           "y","[","[","C","H","A","L","L","E","N","G","E","_","Y","E","A","R","]","]",
           "d","[","[","C","H","A","L","L","E","N","G","E","_","D","A","Y","]","]">>
    ELSE <<"[","[","c","h","a","l","l","e","n","g","e","_","d","a","y","]","]","c">>

Languages == { <<"p","y">>, <<"P","y">>, <<"c">> }
TemplatePaths == { SolTpl, MainC, Gone }
Days == {5, 12}
Years == {2023}
TargetDirs == { <<"/","o","u","t">> }
Challenges == Years \X Days

Responses ==
    { [status |-> 200, text |-> "input-1"],
      [status |-> 200, text |-> "input-2"],
      [status |-> 404, text |-> "not found"] }

NoResponse == [status |-> 0, text |-> ""]
NoInput == [exists |-> FALSE, text |-> ""]
NoArgs == [mode |-> "none", language |-> <<>>, template_file |-> <<>>,
           day |-> 0, year |-> 0, target_dir |-> <<>>]

\* BoostrapperError
TEMPLATE_NOT_FOUND == 1
BAD_AOC_REQUEST == 2
INVALID_TEMPLATE_PATH == 3

Challenge == <<args.year, args.day>>

\* os.path.basename
Basename(path) ==
    LET slashes == { i \in DOMAIN path : path[i] = "/" }
        last == IF slashes = {} THEN 0
                ELSE CHOOSE i \in slashes : \A j \in slashes : j <= i
    IN SubSeq(path, last + 1, Len(path))

EndsWith(s, suffix) ==
    /\ Len(s) >= Len(suffix)
    /\ SubSeq(s, Len(s) - Len(suffix) + 1, Len(s)) = suffix

\* lines 147-150
StarterCodeFilePath(target_dir, path) ==
    LET full == target_dir \o <<"/">> \o Basename(path)
    IN IF EndsWith(path, <<".","t","p","l">>)
       THEN SubSeq(full, 1, Len(full) - 4)
       ELSE full

Snapshot == [regFile |-> regFile, inputFiles |-> inputFiles,
             targetFiles |-> targetFiles, yearDirs |-> yearDirs, browser |-> browser]

----------------------------------------------------------------------------
(* The runs *)

RunInit ==
    /\ pc = "idle"
    /\ args = NoArgs
    /\ saved_templates = <<>>
    /\ regFile = NoFile
    /\ inputFiles = [c \in Challenges |-> NoInput]
    /\ yearDirs = {}
    /\ targetFiles = <<>>
    /\ response = NoResponse
    /\ template_file_path = <<>>
    /\ exitCode = -1
    /\ failure = "none"
    /\ log = <<>>
    /\ browser = {}
    /\ history = <<>>
    /\ start = [regFile |-> NoFile, inputFiles |-> [c \in Challenges |-> NoInput],
                targetFiles |-> <<>>, yearDirs |-> {}, browser |-> {}]
    /\ runs = 0

\* main, lines 203-229: a new process loads the registry and dispatches to
\* call; an exception of pickle.load is not caught and ends the run
Main(a, call) ==
    /\ UNCHANGED renderVars
    /\ pc \in {"idle", "done"}
    /\ runs < MaxRuns
    /\ runs' = runs + 1
    /\ args' = a
    /\ start' = Snapshot
    /\ log' = <<>>
    /\ response' = NoResponse
    /\ template_file_path' = <<>>
    /\ LET loaded == LoadSavedTemplates(regFile)
       IN IF loaded.ok
          THEN /\ saved_templates' = loaded.val
               /\ pc' = call
               /\ exitCode' = -1
               /\ failure' = "none"
          ELSE /\ saved_templates' = <<>>
               /\ pc' = "done"
               /\ exitCode' = 1
               /\ failure' = "uncaught"
    /\ UNCHANGED <<regFile, inputFiles, yearDirs, targetFiles, browser, history>>

\* bootstrapper generate <day> <language> <target_dir> -y <year>
MainGenerate ==
    \E day \in Days, year \in Years, lang \in Languages, dir \in TargetDirs :
        Main([mode |-> "generate", language |-> lang, template_file |-> <<>>,
              day |-> day, year |-> year, target_dir |-> dir],
             "generate_challenge")

\* bootstrapper add <language> <template_file>
MainAdd ==
    \E lang \in Languages, path \in TemplatePaths :
        Main([mode |-> "add", language |-> lang, template_file |-> path,
              day |-> 0, year |-> 0, target_dir |-> <<>>],
             "add_template")

\* exit(code)
Exit(code) ==
    /\ pc' = "done"
    /\ exitCode' = code

\* a plausible slip: the language is looked up as typed
GenLookupNoLower ==
    /\ UNCHANGED renderVars
    /\ pc = "generate_challenge"
    /\ log' = Append(log, "lookup")
    /\ IF ~DictHas(saved_templates, args.language)
       THEN Exit(TEMPLATE_NOT_FOUND)
       ELSE pc' = "get_challenge_input" /\ UNCHANGED exitCode
    /\ UNCHANGED <<args, saved_templates, regFile, inputFiles, yearDirs, targetFiles,
                   response, template_file_path, failure, browser, history, start, runs>>

\* a plausible slip: the error is printed and the run goes on
GenLookupNoExit ==
    /\ UNCHANGED renderVars
    /\ pc = "generate_challenge"
    /\ log' = Append(log, "lookup")
    /\ pc' = "get_challenge_input"
    /\ UNCHANGED <<args, saved_templates, regFile, inputFiles, yearDirs, targetFiles,
                   response, template_file_path, exitCode, failure, browser, history,
                   start, runs>>

\* generate_challenge, lines 39-43: the template lookup
GenLookup ==
    /\ UNCHANGED renderVars
    /\ pc = "generate_challenge"
    /\ log' = Append(log, "lookup")
    /\ IF ~DictHas(saved_templates, Lower(args.language))
       THEN Exit(TEMPLATE_NOT_FOUND)
       ELSE pc' = "get_challenge_input" /\ UNCHANGED exitCode
    /\ UNCHANGED <<args, saved_templates, regFile, inputFiles, yearDirs, targetFiles,
                   response, template_file_path, failure, browser, history, start, runs>>

\* a plausible slip: the status of the response is not looked at
GetChallengeInputNoStatusCheck ==
    /\ UNCHANGED renderVars
    /\ pc = "get_challenge_input"
    /\ \E r \in Responses : response' = r
    /\ log' = Append(log, "GET")
    /\ pc' = "create_input_file"
    /\ UNCHANGED <<args, saved_templates, regFile, inputFiles, yearDirs, targetFiles,
                   template_file_path, exitCode, failure, browser, history, start, runs>>

\* create_input_file line 79 calling get_challenge_input, lines 107-122: the
\* GET is sent, the endpoint answers with any of Responses
GetChallengeInput ==
    /\ UNCHANGED renderVars
    /\ pc = "get_challenge_input"
    /\ \E r \in Responses :
        /\ response' = r
        /\ IF r.status # 200
           THEN Exit(BAD_AOC_REQUEST)
           ELSE pc' = "create_input_file" /\ UNCHANGED exitCode
    /\ log' = Append(log, "GET")
    /\ UNCHANGED <<args, saved_templates, regFile, inputFiles, yearDirs, targetFiles,
                   template_file_path, failure, browser, history, start, runs>>

\* a plausible slip: the file is written whether or not it exists
CreateInputFileAlwaysWrite ==
    /\ UNCHANGED renderVars
    /\ pc = "create_input_file"
    /\ yearDirs' = yearDirs \cup {args.year}
    /\ inputFiles' = [inputFiles EXCEPT
                        ![Challenge] = [exists |-> TRUE, text |-> response.text]]
    /\ log' = Append(log, "input")
    /\ pc' = "generate_starter_code"
    /\ UNCHANGED <<args, saved_templates, regFile, targetFiles, response,
                   template_file_path, exitCode, failure, browser, history, start, runs>>

\* create_input_file, lines 83-93: skip an existing file, else make the year
\* directory if need be and write the downloaded text
CreateInputFile ==
    /\ UNCHANGED renderVars
    /\ pc = "create_input_file"
    /\ IF inputFiles[Challenge].exists
       THEN UNCHANGED <<inputFiles, yearDirs>>
       ELSE /\ yearDirs' = yearDirs \cup {args.year}
            /\ inputFiles' = [inputFiles EXCEPT
                                ![Challenge] = [exists |-> TRUE, text |-> response.text]]
    /\ log' = Append(log, "input")
    /\ pc' = "generate_starter_code"
    /\ UNCHANGED <<args, saved_templates, regFile, targetFiles, response,
                   template_file_path, exitCode, failure, browser, history, start, runs>>

\* generate_challenge lines 47-54 calling generate_starter_code, lines 137-155;
\* saved_templates[...] of a missing key raises KeyError
GenerateStarterCode ==
    /\ UNCHANGED renderVars
    /\ pc = "generate_starter_code"
    /\ IF DictHas(saved_templates, Lower(args.language))
       THEN LET path == DictGet(saved_templates, Lower(args.language))
                content == Render(TemplateContent(path),
                                  << <<<<"C","H","A","L","L","E","N","G","E","_","D","A","Y">>,
                                       <<"int", args.day>>>>,
                                     <<<<"C","H","A","L","L","E","N","G","E","_","Y","E","A","R">>,
                                       <<"int", args.year>>>> >>)
                out == StarterCodeFilePath(args.target_dir, path)
            IN /\ template_file_path' = path
               /\ targetFiles' = [f \in DOMAIN targetFiles \cup {out} |->
                                    IF f = out THEN content ELSE targetFiles[f]]
               /\ log' = Append(log, "starter")
               /\ pc' = "open_browser"
               /\ UNCHANGED <<exitCode, failure>>
       ELSE /\ pc' = "done"
            /\ exitCode' = 1
            /\ failure' = "uncaught"
            /\ UNCHANGED <<template_file_path, targetFiles, log>>
    /\ UNCHANGED <<args, saved_templates, regFile, inputFiles, yearDirs, response,
                   browser, history, start, runs>>

\* generate_challenge, lines 56-60: the challenge page is opened, the run ends
OpenBrowser ==
    /\ UNCHANGED renderVars
    /\ pc = "open_browser"
    /\ browser' = browser \cup {Challenge}
    /\ log' = Append(log, "browser")
    /\ pc' = "done"
    /\ exitCode' = 0
    /\ UNCHANGED <<args, saved_templates, regFile, inputFiles, yearDirs, targetFiles,
                   response, template_file_path, failure, history, start, runs>>

\* a plausible slip: the entry is set before the path is checked
AddTemplateSetBeforeCheck ==
    /\ UNCHANGED renderVars
    /\ pc = "add_template"
    /\ saved_templates' = DictSet(saved_templates, Lower(args.language), args.template_file)
    /\ IF ~PathExists(args.template_file)
       THEN Exit(INVALID_TEMPLATE_PATH)
       ELSE pc' = "open_registry" /\ UNCHANGED exitCode
    /\ UNCHANGED <<args, regFile, inputFiles, yearDirs, targetFiles, response,
                   template_file_path, failure, log, browser, history, start, runs>>

\* add_template, lines 180-184: the path check, then the entry is set in memory
AddTemplate ==
    /\ UNCHANGED renderVars
    /\ pc = "add_template"
    /\ IF ~PathExists(args.template_file)
       THEN Exit(INVALID_TEMPLATE_PATH) /\ UNCHANGED saved_templates
       ELSE /\ saved_templates' =
                  DictSet(saved_templates, Lower(args.language), args.template_file)
            /\ pc' = "open_registry"
            /\ UNCHANGED exitCode
    /\ UNCHANGED <<args, regFile, inputFiles, yearDirs, targetFiles, response,
                   template_file_path, failure, log, browser, history, start, runs>>

\* add_template, line 186: open(SAVED_TEMPLATES_FILE_PATH, "wb") creates the
\* file or truncates it to nothing
OpenRegistry ==
    /\ UNCHANGED renderVars
    /\ pc = "open_registry"
    /\ regFile' = [exists |-> TRUE, bytes |-> <<>>]
    /\ pc' = "dump_registry"
    /\ UNCHANGED <<args, saved_templates, inputFiles, yearDirs, targetFiles, response,
                   template_file_path, exitCode, failure, log, browser, history, start,
                   runs>>

\* add_template, lines 187-189: pickle.dump writes the stream into the open
\* file piece by piece; after the last piece the run ends
DumpRegistry ==
    /\ UNCHANGED renderVars
    /\ pc = "dump_registry"
    /\ LET stream == Dumps(saved_templates)
           n == Len(regFile.bytes) + 1
       IN /\ regFile' = [regFile EXCEPT !.bytes = Append(@, stream[n])]
          /\ IF n = Len(stream)
             THEN /\ pc' = "done"
                  /\ exitCode' = 0
                  /\ history' = Append(history, <<args.language, args.template_file>>)
             ELSE UNCHANGED <<pc, exitCode, history>>
    /\ UNCHANGED <<args, saved_templates, inputFiles, yearDirs, targetFiles, response,
                   template_file_path, failure, log, browser, start, runs>>

\* the process is killed (signal, power loss) wherever it stands
Interrupt ==
    /\ UNCHANGED renderVars
    /\ pc \notin {"idle", "done"}
    /\ pc' = "done"
    /\ exitCode' = 137
    /\ failure' = "killed"
    /\ UNCHANGED <<args, saved_templates, regFile, inputFiles, yearDirs, targetFiles,
                   response, template_file_path, log, browser, history, start, runs>>

RenderIdle ==
    /\ tpl_content = <<>>
    /\ template_vars = <<>>
    /\ rendered = [done |-> FALSE, text |-> <<>>]

Init == RunInit /\ RenderIdle

Next ==
    \/ MainGenerate
    \/ MainAdd
    \/ GenLookup
    \/ GetChallengeInput
    \/ CreateInputFile
    \/ GenerateStarterCode
    \/ OpenBrowser
    \/ AddTemplate
    \/ OpenRegistry
    \/ DumpRegistry

\* runs that go to their end, one after the other
Spec == Init /\ [][Next]_vars

NextKill == Next \/ Interrupt

\* the same, and a run may be killed at any point
SpecKill == Init /\ [][NextKill]_vars

----------------------------------------------------------------------------
(* The claims about the runs *)

SameLetter(x, y) == x = y \/ {x, y} \in { {"p", "P"}, {"y", "Y"}, {"c", "C"} }

\* two language names spelled the same ignoring case
EqIgnoreCase(a, b) ==
    /\ Len(a) = Len(b)
    /\ \A i \in DOMAIN a : SameLetter(a[i], b[i])

IsLowerCase(s) == \A i \in DOMAIN s : s[i] \notin {"P", "Y", "C"}

\* the successful adds for a language spelled like lang
AddsFor(lang) == { i \in DOMAIN history : EqIgnoreCase(history[i][1], lang) }

\* the path of the most recent of them
LastAddPath(lang) ==
    history[CHOOSE i \in AddsFor(lang) : \A j \in AddsFor(lang) : j <= i][2]

AtRest == pc \in {"idle", "done"}

Logged(e) == \E i \in DOMAIN log : log[i] = e

\* C1 as stated: a generate run that finds the input file of its (day, year)
\* in place sends no request to the remote endpoint.
C1_AsStated ==
    (args.mode = "generate" /\ start.inputFiles[Challenge].exists) => ~Logged("GET")

\* C2 as stated: whenever no run is in progress after an add, finished or
\* killed, that found a registry file with entries, the file deserializes to
\* the complete mapping from before that add or to the complete mapping
\* after it.
C2_AsStated ==
    (pc = "done" /\ args.mode = "add" /\ start.regFile.exists
        /\ LoadSavedTemplates(start.regFile).ok
        /\ LoadSavedTemplates(start.regFile).val # <<>>)
        => LET before == LoadSavedTemplates(start.regFile).val
               after == DictSet(before, Lower(args.language), args.template_file)
               now == LoadSavedTemplates(regFile)
           IN now.ok /\ now.val \in {before, after}

\* C3: an add whose template_file does not exist ends with the
\* invalid-template-path exit, and neither the mapping in memory nor the
\* registry file differs from what the run found.
C3_FailedAddUntouched ==
    (args.mode = "add" /\ ~PathExists(args.template_file))
        => /\ regFile = start.regFile
           /\ saved_templates = LoadSavedTemplates(start.regFile).val
           /\ pc # "add_template"
                => (pc = "done" /\ exitCode = INVALID_TEMPLATE_PATH /\ failure = "none")

\* a failed add on a registry that holds an entry
C3_Witness ==
    /\ args.mode = "add"
    /\ ~PathExists(args.template_file)
    /\ pc = "done"
    /\ exitCode = INVALID_TEMPLATE_PATH
    /\ regFile.exists
    /\ DictHas(saved_templates, Lower(args.language))

\* C4: when the endpoint answers with a status other than 200, generate ends
\* with the remote-request-failed exit and no input file has been created
\* (the input files are those the run found).
C4_BadStatusNoInputFile ==
    (args.mode = "generate" /\ Logged("GET") /\ response.status # 200)
        => /\ pc = "done"
           /\ exitCode = BAD_AOC_REQUEST
           /\ failure = "none"
           /\ inputFiles = start.inputFiles
           /\ yearDirs = start.yearDirs

\* a 404 for a challenge that has no input file yet
C4_Witness ==
    /\ args.mode = "generate"
    /\ Logged("GET")
    /\ response.status = 404
    /\ ~start.inputFiles[Challenge].exists
    /\ ~inputFiles[Challenge].exists
    /\ exitCode = BAD_AOC_REQUEST

\* C5: no step changes an input file that exists, and a step that creates one
\* writes the text of the 200 response of the run that creates it.
C5_InputFileNeverOverwritten ==
    [][\A c \in Challenges :
          IF inputFiles[c].exists
          THEN inputFiles'[c] = inputFiles[c]
          ELSE inputFiles'[c].exists
                  => /\ c = Challenge
                     /\ response.status = 200
                     /\ inputFiles'[c].text = response.text]_vars

\* a later generate of the same challenge was answered with another body and
\* create_input_file has run
C5_Witness ==
    /\ args.mode = "generate"
    /\ pc = "generate_starter_code"
    /\ start.inputFiles[Challenge].exists
    /\ response.status = 200
    /\ response.text # inputFiles[Challenge].text

\* C6: with no run in progress, the registry file holds exactly one entry per
\* language added (names compared ignoring case), under the lowercase name,
\* and its path is that of the most recent successful add for that language.
C6_LastWriteWins ==
    AtRest =>
        LET reg == LoadSavedTemplates(regFile)
        IN /\ reg.ok
           /\ \A i, j \in DOMAIN reg.val :
                 i # j => ~EqIgnoreCase(reg.val[i][1], reg.val[j][1])
           /\ \A i \in DOMAIN reg.val :
                 /\ IsLowerCase(reg.val[i][1])
                 /\ AddsFor(reg.val[i][1]) # {}
                 /\ reg.val[i][2] = LastAddPath(reg.val[i][1])
           /\ \A h \in DOMAIN history :
                 \E i \in DOMAIN reg.val : EqIgnoreCase(reg.val[i][1], history[h][1])

\* py -> sol.py.tpl, c -> main.c, then Py -> main.c: two entries, py replaced
C6_Witness ==
    /\ AtRest
    /\ history = << << <<"p","y">>, SolTpl >>, << <<"c">>, MainC >>, << <<"P","y">>, MainC >> >>
    /\ LoadSavedTemplates(regFile).val = << << <<"p","y">>, MainC >>, << <<"c">>, MainC >> >>

\* C7: a generate run that is past its lookup has failed with
\* template-not-found exactly when the registry has no entry for the
\* lowercase language, which is exactly when no add for a language spelled
\* the same ignoring case succeeded; the template it renders is the path of
\* the most recent such add.
C7_CaseInsensitiveLookup ==
    (args.mode = "generate" /\ log # <<>>)
        => LET notFound == pc = "done" /\ exitCode = TEMPLATE_NOT_FOUND /\ failure = "none"
           IN /\ notFound <=> ~DictHas(LoadSavedTemplates(regFile).val, Lower(args.language))
              /\ notFound <=> AddsFor(args.language) = {}
              /\ Logged("starter") =>
                    /\ AddsFor(args.language) # {}
                    /\ template_file_path = LastAddPath(args.language)

\* generate for a language typed in another case than the latest add for it
C7_Witness ==
    /\ args.mode = "generate"
    /\ Logged("starter")
    /\ Len(history) >= 2
    /\ AddsFor(args.language) # {}
    /\ \A i \in AddsFor(args.language) : history[i][1] # args.language
    /\ template_file_path = LastAddPath(args.language)
    /\ template_file_path # history[1][2]

StepOrder == <<"lookup", "GET", "input", "starter", "browser">>

\* C10: the side effects of a generate run come in the order lookup, request,
\* input-file step, starter-code write, browser; a failed lookup or a non-200
\* answer ends the run there: after template-not-found no request was sent,
\* and after template-not-found or remote-request-failed no starter code was
\* written and no page opened.
C10_StepOrder ==
    /\ Len(log) <= Len(StepOrder)
    /\ \A i \in DOMAIN log : log[i] = StepOrder[i]
    /\ (args.mode = "generate" /\ log # <<>>
            /\ ~DictHas(saved_templates, Lower(args.language)))
        => (pc = "done" /\ exitCode = TEMPLATE_NOT_FOUND /\ log = <<"lookup">>)
    /\ (pc = "done" /\ failure = "none" /\ exitCode = TEMPLATE_NOT_FOUND)
        => /\ ~Logged("GET")
           /\ targetFiles = start.targetFiles
           /\ browser = start.browser
    /\ (pc = "done" /\ failure = "none" /\ exitCode = BAD_AOC_REQUEST)
        => /\ log = <<"lookup", "GET">>
           /\ targetFiles = start.targetFiles
           /\ browser = start.browser

\* a run stopped by a non-200 answer, after an earlier run went through all
\* its steps
C10_Witness ==
    /\ pc = "done"
    /\ exitCode = BAD_AOC_REQUEST
    /\ log = <<"lookup", "GET">>
    /\ browser # {}
    /\ DOMAIN targetFiles # {}

----------------------------------------------------------------------------
(* The renderer on its own: template contents and variables it is given *)

Pieces ==
    { <<"[","[","A","]","]">>,     \* [[A]]
      <<"[","[","B","]","]">>,     \* [[B]]
      <<"[","[","a","]","]">>,     \* [[a]]: never a key
      <<"[","[","A">>,             \* [[A
      <<"]","]">> }                \* ]]

RenderKeys == { <<"A">>, <<"B">>, <<"A","1">>, <<"A","]">> }

RenderValues ==
    { <<"int", 1>>,
      <<"str", <<>>>>,
      <<"str", <<"[","[","B","]","]">>>> }

SeqsUpTo(S, n) == UNION { [1..k -> S] : k \in 0..n }

RenderContents == { Concat(cs) : cs \in SeqsUpTo(Pieces, MaxChunks) }

\* dicts: insertion-ordered, keys distinct
RenderDicts ==
    { d \in SeqsUpTo(RenderKeys \X RenderValues, MaxVars) :
        \A i, j \in 1..Len(d) : i # j => d[i][1] # d[j][1] }

NotRendered == [done |-> FALSE, text |-> <<>>]

RenderInit ==
    /\ RunInit
    /\ tpl_content \in RenderContents
    /\ template_vars \in RenderDicts
    /\ rendered = NotRendered

\* lines 142-143 applied to the drawn template content and variables
RenderCall ==
    /\ ~rendered.done
    /\ rendered' = [done |-> TRUE, text |-> Render(tpl_content, template_vars)]
    /\ UNCHANGED <<tpl_content, template_vars>>
    /\ UNCHANGED runVars

\* the renderer alone, on drawn template contents and variables
SpecRender == RenderInit /\ [][RenderCall]_vars

----------------------------------------------------------------------------
(* What the renderer is specified to compute *)

Chars(s) == { s[i] : i \in DOMAIN s }

HasSub(s, sub) == \E i \in 1..Len(s) : MatchAt(s, i, sub)

RECURSIVE SimFrom(_, _, _)
\* one pass over the ORIGINAL content: where the token of a key stands, the
\* key's value; every other character verbatim
SimFrom(s, i, tv) ==
    IF i > Len(s) THEN <<>>
    ELSE IF \E k \in DOMAIN tv : MatchAt(s, i, Token(tv[k][1]))
         THEN LET k == CHOOSE j \in DOMAIN tv :
                          /\ MatchAt(s, i, Token(tv[j][1]))
                          /\ \A m \in 1..(j - 1) : ~MatchAt(s, i, Token(tv[m][1]))
              IN Format(tv[k][2]) \o SimFrom(s, i + Len(Token(tv[k][1])), tv)
         ELSE <<s[i]>> \o SimFrom(s, i + 1, tv)

Substituted(content, tv) == SimFrom(content, 1, tv)

Brackets == {"[", "]"}

\* keys hold no bracket; values are non-empty, hold no bracket and no
\* character of any key (generate's variables: upper-case names with "_",
\* decimal integers)
SafeVars(tv) ==
    \A i \in DOMAIN tv :
        /\ Chars(tv[i][1]) \cap Brackets = {}
        /\ Format(tv[i][2]) # <<>>
        /\ Chars(Format(tv[i][2])) \cap Brackets = {}
        /\ \A j \in DOMAIN tv : Chars(Format(tv[i][2])) \cap Chars(tv[j][1]) = {}

\* the claim's condition on keys: distinct, and neither "[[" nor "]]" inside
BracketFreeKeys(tv) ==
    /\ \A i, j \in DOMAIN tv : i # j => tv[i][1] # tv[j][1]
    /\ \A i \in DOMAIN tv :
        /\ ~HasSub(tv[i][1], <<"[", "[">>)
        /\ ~HasSub(tv[i][1], <<"]", "]">>)

\* the same dict with its keys inserted in another order
Reorderings(d) ==
    { [i \in DOMAIN d |-> d[f[i]]] :
        f \in { g \in [DOMAIN d -> DOMAIN d] : \A a, b \in DOMAIN d : a # b => g[a] # g[b] } }

\* C8 as stated: for every variables mapping, the output is the content with
\* every [[KEY]] of a key replaced by that key's value and all else verbatim.
C8_AsStated ==
    rendered.done => rendered.text = Substituted(tpl_content, template_vars)

\* C8 (amended): when keys hold no bracket and values are non-empty, hold no
\* bracket and share no character with a key, rendering replaces every
\* occurrence of [[KEY]] of every key by the key's value, matching exactly and
\* case-sensitively, and leaves unknown tokens and all other text verbatim.
C8_Render ==
    (rendered.done /\ SafeVars(template_vars))
        => rendered.text = Substituted(tpl_content, template_vars)

\* [[A]][[a]][[A]] with {A: 1, B: 1}: two occurrences, an unknown token
\* differing in case only, an unused variable
C8_Witness ==
    /\ rendered.done
    /\ SafeVars(template_vars)
    /\ template_vars = << <<<<"A">>, <<"int", 1>>>>, <<<<"B">>, <<"int", 1>>>> >>
    /\ tpl_content = <<"[","[","A","]","]","[","[","a","]","]","[","[","A","]","]">>
    /\ rendered.text = <<"1","[","[","a","]","]","1">>

\* C9 as stated: for keys that are distinct and hold neither "[[" nor "]]",
\* every order of the per-key replacements gives the same rendered content.
C9_AsStated ==
    (rendered.done /\ BracketFreeKeys(template_vars))
        => \A d \in Reorderings(template_vars) : Render(tpl_content, d) = rendered.text

\* C9 (amended): the order of the per-key replacements does not matter when,
\* besides, keys hold no bracket at all and values are non-empty, hold no
\* bracket and share no character with a key.
C9_OrderIndependent ==
    (rendered.done /\ SafeVars(template_vars))
        => \A d \in Reorderings(template_vars) : Render(tpl_content, d) = rendered.text

\* two variables whose tokens both stand in the content, both replaced
C9_Witness ==
    /\ rendered.done
    /\ SafeVars(template_vars)
    /\ Len(template_vars) = 2
    /\ \A i \in DOMAIN template_vars : HasSub(tpl_content, Token(template_vars[i][1]))
    /\ \A i \in DOMAIN template_vars : ~HasSub(rendered.text, Token(template_vars[i][1]))

====
